---- MODULE Spec2Model ----
(***************************************************************************)
(* A model of the logic-programming core of kkty/prolog (src/src/main.ts): *)
(* terms, substitutions, unification without occurs-check, standardizing   *)
(* apart, and the breadth-first resolution engine behind Space.query.      *)
(*                                                                         *)
(* Object identity.  The code compares Variables, Constants, Functors and  *)
(* Predicates by reference (===).  A Variable is modelled by an integer    *)
(* identity `id` (plus its display name); Constants, Functors and          *)
(* Predicates are interned by the caller, one object per name, so their    *)
(* name stands for their identity.                                         *)
(*                                                                         *)
(* Specifications.  Spec: one query instance on one of the stores of       *)
(* Stores, with any goal list of GoalLists.  SpecTwo: two query instances  *)
(* on one store, their pulls interleaved.  SpecUnify: one call of          *)
(* Constraint.unify on a constraint list of UnifyInputs.  SpecApply: one   *)
(* call of Substitution.applyAll on a term and a binding list of           *)
(* ApplyInputs.  A call of next() is the action Pull followed by one       *)
(* action Step per pass through its while loop, since a single call need   *)
(* not return.                                                             *)
(***************************************************************************)
EXTENDS Integers, Sequences, FiniteSets, TLC

\* ------------------------------------------------------------------------
\* Bounds of the model
\* ------------------------------------------------------------------------
MaxNum == 2
MaxIters == 12
MaxPulls == 4
MaxItersTwo == 5
MaxVars == 2
MaxSubs == 2
MaxDepth == 2
StackLimit == 20

\* ------------------------------------------------------------------------
\* Terms
\* ------------------------------------------------------------------------
Variable(id, name) == [k |-> "V", id |-> id, name |-> name, a |-> <<>>]
Constant(name) == [k |-> "C", id |-> 0, name |-> name, a |-> <<>>]
Application(functor, terms) == [k |-> "A", id |-> 0, name |-> functor, a |-> terms]

\* Sequence helpers (Array.prototype.map / concat / Set insertion order)
RECURSIVE Flatten(_)
Flatten(ss) == IF ss = <<>> THEN <<>> ELSE Head(ss) \o Flatten(Tail(ss))

RECURSIVE Dedup(_)
Dedup(s) ==
  IF s = <<>> THEN <<>>
  ELSE LET init == Dedup(SubSeq(s, 1, Len(s) - 1))
           last == s[Len(s)]
       IN  IF \E i \in 1..Len(init) : init[i] = last THEN init ELSE Append(init, last)

Range(s) == {s[i] : i \in 1..Len(s)}

\* listVariables: the Variables of a term, in first-occurrence order
\* (a JS Set iterates in insertion order).
RECURSIVE listVariables(_)
listVariables(term) ==
  IF term.k = "V" THEN <<term>>
  ELSE IF term.k = "A"
       THEN Dedup(Flatten([i \in 1..Len(term.a) |-> listVariables(term.a[i])]))
       ELSE <<>>

\* Variables of a list of terms, in first-occurrence order
termsVariables(terms) ==
  Dedup(Flatten([i \in 1..Len(terms) |-> listVariables(terms[i])]))

\* ------------------------------------------------------------------------
\* Substitution
\* ------------------------------------------------------------------------
Substitution(variable, term) == [variable |-> variable, term |-> term]

RECURSIVE apply(_, _)
apply(substitution, term) ==
  IF term.k = "V"
  THEN IF term = substitution.variable THEN substitution.term ELSE term
  ELSE IF term.k = "C" THEN term
  ELSE Application(term.name, [i \in 1..Len(term.a) |-> apply(substitution, term.a[i])])

\* line 169-171: reduce folds from the first binding of the list
RECURSIVE applyAllRight(_, _)
applyAllRight(term, substitutions) ==
  IF substitutions = <<>> THEN term
  ELSE apply(Head(substitutions), applyAllRight(term, Tail(substitutions)))

RECURSIVE applyAll(_, _)
applyAll(term, substitutions) ==
  IF substitutions = <<>> THEN term
  ELSE applyAll(apply(Head(substitutions), term), Tail(substitutions))

\* ------------------------------------------------------------------------
\* Constraint.unify
\* ------------------------------------------------------------------------
Constraint(left, right) == [left |-> left, right |-> right]

\* what a call of unify comes to: a binding list, the `null` of a failed
\* unification, or no result at all.  The recursion of unify has no bound of
\* its own (there is no occurs-check), so a call that recurses without end
\* exhausts the call stack and the engine raises a RangeError; StackLimit
\* stands for the depth of the call stack.
Null == [ok |-> FALSE, substitutions |-> <<>>, thrown |-> FALSE]
Some(substitutions) == [ok |-> TRUE, substitutions |-> substitutions, thrown |-> FALSE]
RangeError == [ok |-> FALSE, substitutions |-> <<>>, thrown |-> TRUE]

\* `left === right` is reference identity.  Variables and Constants are
\* identical exactly when they are the same object.  Two Applications are
\* treated as distinct objects (apply always allocates a new Application);
\* for structurally equal Applications the decomposition below gives the
\* same result as dropping the constraint.
Identical(left, right) == left.k # "A" /\ left = right

\* line 197-200: the binding built when one side is a Variable
bindingOf(left, right) ==
  IF left.k = "V" THEN Substitution(left, right) ELSE Substitution(right, left)

\* line 203-204: the new binding is applied to both sides of the rest
rewriteRestNone(substitution, rest) == rest

rewriteRest(substitution, rest) ==
  [i \in 1..Len(rest) |->
     Constraint(apply(substitution, rest[i].left), apply(substitution, rest[i].right))]

\* line 219-220: two Applications clash
clashArityOnly(left, right) == Len(left.a) # Len(right.a)

clash(left, right) == left.name # right.name \/ Len(left.a) # Len(right.a)

\* line 185-231, called at depth `depth` of the recursion
RECURSIVE unifyAt(_, _)
unifyAt(constraints, depth) ==
  IF depth >= StackLimit THEN RangeError
  ELSE IF constraints = <<>> THEN Some(<<>>)
  ELSE
    LET left == Head(constraints).left
        right == Head(constraints).right
        rest == Tail(constraints)
    IN
    IF Identical(left, right) THEN unifyAt(rest, depth + 1)
    ELSE IF left.k = "V" \/ right.k = "V" THEN
      LET substitution == bindingOf(left, right)
          substitutions == unifyAt(rewriteRest(substitution, rest), depth + 1)
      IN  IF ~substitutions.ok THEN substitutions
          ELSE Some(<<substitution>> \o substitutions.substitutions)
    \* line 212-215: `left === right` cannot hold here (line 191 returned)
    ELSE IF left.k = "C" \/ right.k = "C" THEN Null
    ELSE IF clash(left, right) THEN Null
    ELSE unifyAt([i \in 1..Len(left.a) |-> Constraint(left.a[i], right.a[i])] \o rest,
                 depth + 1)

unify(constraints) == unifyAt(constraints, 0)

\* ------------------------------------------------------------------------
\* Facts, rules, goals and standardizing apart (Fact.clone, Rule.clone)
\* ------------------------------------------------------------------------
Atom(predicate, terms) == [predicate |-> predicate, terms |-> terms]
Fact(predicate, terms) == Atom(predicate, terms)
Goal(predicate, terms) == Atom(predicate, terms)
Rule(left, right) == [left |-> left, right |-> right]

factVariables(fact) == termsVariables(fact.terms)

ruleVariables(rule) ==
  Dedup(termsVariables(rule.left.terms)
        \o Flatten([j \in 1..Len(rule.right) |-> termsVariables(rule.right[j].terms)]))

\* line 75-77, 116-118: one new Variable per distinct Variable, same name;
\* nv is the first identity not yet in use
refreshNone(variables, nv) == <<>>

refresh(variables, nv) ==
  [i \in 1..Len(variables) |->
     Substitution(variables[i], Variable(nv + i - 1, variables[i].name))]

cloneAtom(atom, substitutions) ==
  Atom(atom.predicate,
       [i \in 1..Len(atom.terms) |-> applyAll(atom.terms[i], substitutions)])

cloneFact(fact, nv) == cloneAtom(fact, refresh(factVariables(fact), nv))

cloneRule(rule, nv) ==
  LET substitutions == refresh(ruleVariables(rule), nv)
  IN  Rule(cloneAtom(rule.left, substitutions),
           [j \in 1..Len(rule.right) |-> cloneAtom(rule.right[j], substitutions)])

\* ------------------------------------------------------------------------
\* Space.query: one iteration of the loop of next()
\* ------------------------------------------------------------------------
Item(goals, substitutions) == [goals |-> goals, substitutions |-> substitutions]

\* line 245-252: the Variables of the original goal list
queryVariables(goals) ==
  Dedup(Flatten([j \in 1..Len(goals) |-> termsVariables(goals[j].terms)]))

\* line 293-294, 316-317: predicate identity and argument count
matchesAnyPredicate(goal, head) == Len(goal.terms) = Len(head.terms)

matches(goal, head) ==
  goal.predicate = head.predicate /\ Len(goal.terms) = Len(head.terms)

\* line 296-301, 319-324: unify the instantiated goal with a clause head
unifyHead(goal, substitutions, head) ==
  unify([i \in 1..Len(goal.terms) |->
           Constraint(applyAll(goal.terms[i], substitutions), head.terms[i])])

\* line 289-310, one fact: the items (none or one) it adds to the queue,
\* or the RangeError that ends the pull
factAttempt(fact0, item, nv) ==
  LET fact == cloneFact(fact0, nv)
      goal == item.goals[1]
  IN  IF ~matches(goal, fact) THEN [items |-> <<>>, thrown |-> FALSE]
      ELSE LET substitutionsNew == unifyHead(goal, item.substitutions, fact)
           IN  IF substitutionsNew.ok
               THEN [items |-> <<Item(Tail(item.goals),
                                      item.substitutions \o substitutionsNew.substitutions)>>,
                     thrown |-> FALSE]
               ELSE [items |-> <<>>, thrown |-> substitutionsNew.thrown]

\* line 330: the goals of an item built from a rule
prependBody(deferred, body) == body \o deferred

appendBody(deferred, body) == deferred \o body

\* line 312-334, one rule
ruleAttempt(rule0, item, nv) ==
  LET rule == cloneRule(rule0, nv)
      goal == item.goals[1]
  IN  IF ~matches(goal, rule.left) THEN [items |-> <<>>, thrown |-> FALSE]
      ELSE LET substitutionsNew == unifyHead(goal, item.substitutions, rule.left)
           IN  IF substitutionsNew.ok
               THEN [items |-> <<Item(appendBody(Tail(item.goals), rule.right),
                                      item.substitutions \o substitutionsNew.substitutions)>>,
                     thrown |-> FALSE]
               ELSE [items |-> <<>>, thrown |-> substitutionsNew.thrown]

\* line 291, 314: a call of clone() on a stored clause and what it returned
Cloned(kind, of, as) == [kind |-> kind, of |-> of, as |-> as]

\* the loop over this.facts: every fact is cloned, matching or not; an
\* exception leaves the loop with the items pushed so far
RECURSIVE resolveFacts(_, _, _)
resolveFacts(fs, item, nv) ==
  IF fs = <<>> THEN [items |-> <<>>, nv |-> nv, thrown |-> FALSE, clones |-> <<>>]
  ELSE LET here == factAttempt(Head(fs), item, nv)
           nv1 == nv + Len(factVariables(Head(fs)))
           made == <<Cloned("fact", Head(fs), cloneFact(Head(fs), nv))>>
       IN  IF here.thrown THEN [items |-> <<>>, nv |-> nv1, thrown |-> TRUE, clones |-> made]
           ELSE LET r == resolveFacts(Tail(fs), item, nv1)
                IN  [items |-> here.items \o r.items, nv |-> r.nv, thrown |-> r.thrown,
                     clones |-> made \o r.clones]

\* the loop over this.rules
RECURSIVE resolveRules(_, _, _)
resolveRules(rs, item, nv) ==
  IF rs = <<>> THEN [items |-> <<>>, nv |-> nv, thrown |-> FALSE, clones |-> <<>>]
  ELSE LET here == ruleAttempt(Head(rs), item, nv)
           nv1 == nv + Len(ruleVariables(Head(rs)))
           made == <<Cloned("rule", Head(rs), cloneRule(Head(rs), nv))>>
       IN  IF here.thrown THEN [items |-> <<>>, nv |-> nv1, thrown |-> TRUE, clones |-> made]
           ELSE LET r == resolveRules(Tail(rs), item, nv1)
                IN  [items |-> here.items \o r.items, nv |-> r.nv, thrown |-> r.thrown,
                     clones |-> made \o r.clones]

\* queue.shift()
pop(queue) ==
  [item |-> queue[Len(queue)], rest |-> SubSeq(queue, 1, Len(queue) - 1)]

shift(queue) == [item |-> Head(queue), rest |-> Tail(queue)]

\* queue.push in the facts loop, then in the rules loop
pushRulesFirst(rest, factItems, ruleItems) == rest \o ruleItems \o factItems

push(rest, factItems, ruleItems) == rest \o factItems \o ruleItems

\* line 261-265
variableTermMapping(freeVars, substitutions) ==
  [v \in Range(freeVars) |-> applyAll(v, substitutions)]

\* line 269-275
isValidAlways(mapping) == TRUE

isValid(mapping) == \A v \in DOMAIN mapping : listVariables(mapping[v]) = <<>>

\* how a pass through the loop ends: the loop goes on, next() returns an
\* answer or exhaustion, or next() is left by an exception
Continue == [kind |-> "continue", done |-> FALSE, value |-> <<>>]
Answer(mapping) == [kind |-> "return", done |-> FALSE, value |-> mapping]
Done == [kind |-> "return", done |-> TRUE, value |-> <<>>]
Thrown == [kind |-> "throw", done |-> FALSE, value |-> <<>>]

\* line 277-279: a candidate with a non-ground binding is skipped
onInvalidBreak == Done

onInvalid == Continue

\* line 256-340: the loop test and one pass through the loop body
iterate(queue, nv, freeVars, fs, rs) ==
  IF Len(queue) = 0 THEN [queue |-> queue, nv |-> nv, ret |-> Done, clones |-> <<>>]
  ELSE
    LET item == shift(queue).item
        rest == shift(queue).rest
    IN
    IF Len(item.goals) = 0 THEN
      LET mapping == variableTermMapping(freeVars, item.substitutions)
      IN  IF ~isValid(mapping)
          THEN [queue |-> rest, nv |-> nv, ret |-> onInvalid, clones |-> <<>>]
          ELSE [queue |-> rest, nv |-> nv, ret |-> Answer(mapping), clones |-> <<>>]
    ELSE
      LET byFacts == resolveFacts(fs, item, nv)
          byRules == IF byFacts.thrown
                     THEN [items |-> <<>>, nv |-> byFacts.nv, thrown |-> TRUE, clones |-> <<>>]
                     ELSE resolveRules(rs, item, byFacts.nv)
      IN  [queue |-> push(rest, byFacts.items, byRules.items),
           nv |-> byRules.nv,
           ret |-> IF byRules.thrown THEN Thrown ELSE Continue,
           clones |-> byFacts.clones \o byRules.clones]

\* ------------------------------------------------------------------------
\* Programs and queries the model runs
\* ------------------------------------------------------------------------
z == Constant("z")
a == Constant("a")
b == Constant("b")
s(t) == Application("s", <<t>>)
f(t1, t2) == Application("f", <<t1, t2>>)
f1(t) == Application("f", <<t>>)
g(t) == Application("g", <<t>>)

RECURSIVE Num(_)
Num(n) == IF n = 0 THEN z ELSE s(Num(n - 1))

\* the Variables of the queries
X == Variable(1, "X")
Y == Variable(2, "Y")
V == Variable(3, "V")

\* add(z, Y, Y).   add(s(X), Y, s(Z)) :- add(X, Y, Z).
AddFact == Fact("add", <<z, Variable(11, "Y"), Variable(11, "Y")>>)
AddRule ==
  Rule(Atom("add", <<s(Variable(12, "X")), Variable(13, "Y"), s(Variable(14, "Z"))>>),
       <<Atom("add", <<Variable(12, "X"), Variable(13, "Y"), Variable(14, "Z")>>)>>)
AddStore == [facts |-> <<AddFact>>, rules |-> <<AddRule>>]

\* nat(z).   nat(s(X)) :- nat(X).
NatFact == Fact("nat", <<z>>)
NatRule ==
  Rule(Atom("nat", <<s(Variable(15, "X"))>>), <<Atom("nat", <<Variable(15, "X")>>)>>)
NatStore == [facts |-> <<NatFact>>, rules |-> <<NatRule>>]

\* mult(z, X, z).
MultFact == Fact("mult", <<z, Variable(16, "X"), z>>)
MultStore == [facts |-> <<MultFact, AddFact>>, rules |-> <<AddRule>>]

\* q(X) :- q(X).   q(a) :- r.   r.
LoopStore ==
  [facts |-> <<Fact("r", <<>>)>>,
   rules |-> <<Rule(Atom("q", <<Variable(17, "X")>>), <<Atom("q", <<Variable(17, "X")>>)>>),
               Rule(Atom("q", <<a>>), <<Atom("r", <<>>)>>)>>]

\* p(a).  p(X).  p(a, b).  eq(X, X).  p(b).  t(X, X, X).
\* p(s(X)) :- p(X).  q(a) :- eq(Y, s(Y)).  p(X) :- eq(X, b).
MixStore ==
  [facts |-> <<Fact("p", <<a>>), Fact("p", <<Variable(18, "X")>>), Fact("p", <<a, b>>),
               Fact("eq", <<Variable(19, "X"), Variable(19, "X")>>), Fact("p", <<b>>),
               Fact("t", <<Variable(23, "X"), Variable(23, "X"), Variable(23, "X")>>)>>,
   rules |-> <<Rule(Atom("p", <<s(Variable(20, "X"))>>), <<Atom("p", <<Variable(20, "X")>>)>>),
               Rule(Atom("q", <<a>>), <<Atom("eq", <<Variable(21, "Y"), s(Variable(21, "Y"))>>)>>),
               Rule(Atom("p", <<Variable(22, "X")>>), <<Atom("eq", <<Variable(22, "X"), b>>)>>)>>]

\* t(X, X, X).  t(a, f(a, a), f(a, a)).
KnotStore ==
  [facts |-> <<Fact("t", <<Variable(24, "X"), Variable(24, "X"), Variable(24, "X")>>),
               Fact("t", <<a, f(a, a), f(a, a)>>)>>,
   rules |-> <<>>]

Stores == {AddStore, NatStore, MultStore, LoopStore, MixStore, KnotStore}

\* the first Variable identity no store and no query uses
StoreVariables(st) ==
  UNION ({Range(factVariables(st.facts[j])) : j \in 1..Len(st.facts)}
         \cup {Range(ruleVariables(st.rules[j])) : j \in 1..Len(st.rules)})
UsedIds == {v.id : v \in UNION {StoreVariables(st) : st \in Stores}} \cup {X.id, Y.id, V.id}
FirstFresh == 1 + CHOOSE m \in UsedIds : \A n \in UsedIds : n <= m

Numerals == {Num(n) : n \in 0..MaxNum}
QueryTerms == Numerals \cup {X, Y}

GoalLists ==
     {<<Goal("add", <<t1, t2, t3>>)>> : t1 \in QueryTerms, t2 \in QueryTerms, t3 \in QueryTerms \cup {V}}
  \cup {<<Goal(p, <<t>>)>> : p \in {"nat", "p", "q", "absent"}, t \in QueryTerms \cup {a, s(X)}}
  \cup {<<Goal("mult", <<z, t2, t3>>)>> : t2 \in {X, Y, z}, t3 \in {V, z}}
  \cup {<<Goal("eq", <<t1, t2>>)>> : t1 \in {X, a}, t2 \in {X, Y, s(X), b}}
  \cup {<<Goal(p, <<t1, t2>>)>> : p \in {"p", "q"}, t1 \in {X, a}, t2 \in {X, Y, b}}
  \cup {<<Goal("nat", <<X>>), Goal("nat", <<Y>>)>>,
        <<Goal("nat", <<X>>), Goal("absent", <<X>>)>>,
        <<Goal("add", <<X, Y, s(z)>>), Goal("nat", <<X>>)>>,
        <<Goal("p", <<X>>), Goal("q", <<Y>>)>>,
        <<Goal("r", <<>>)>>,
        <<Goal("t", <<X, f(X, X), f(X, X)>>)>>,
        <<Goal("t", <<X, s(X), s(X)>>)>>,
        <<Goal("t", <<X, Y, f(a, b)>>)>>,
        <<>>}

\* ------------------------------------------------------------------------
\* State
\* ------------------------------------------------------------------------
Inst == {1, 2}

VARIABLES
  facts, rules,     \* the Space
  insts,            \* the query instances a run creates
  goals,            \* per instance: the goal list query() was called with
  freeVariables,    \* per instance: line 245-252
  queue,            \* the queue arrays
  pc,               \* per instance: "none", "idle" (between pulls), "running" (in next())
  results,          \* per instance: what the pulls have returned so far
  iters,            \* per instance: loop iterations executed so far
  nextVar,          \* the next Variable identity `new Variable` hands out
  clones,           \* the calls of clone() so far, each with the clause it returned
  call, ret         \* a call of a pure function and its result

vars == <<facts, rules, insts, goals, freeVariables, queue, pc, results, iters, nextVar, clones,
          call, ret>>

\* line 243: every call of query() allocates its own queue
queueOfShared(i) == 1

queueOf(i) == i

NoCall == [op |-> "none", constraints |-> <<>>]

InitSpace(n) ==
  /\ \E st \in Stores : facts = st.facts /\ rules = st.rules
  /\ insts = 1..n
  /\ goals = [i \in Inst |-> <<>>]
  /\ freeVariables = [i \in Inst |-> <<>>]
  /\ queue = [i \in Inst |-> <<>>]
  /\ pc = [i \in Inst |-> "none"]
  /\ results = [i \in Inst |-> <<>>]
  /\ iters = [i \in Inst |-> 0]
  /\ nextVar = FirstFresh
  /\ clones = <<>>
  /\ call = NoCall
  /\ ret = Null

Init == InitSpace(1)

\* two query instances on one Space
InitTwo == InitSpace(2)

\* the goal lists and the number of loop passes a run explores
TwoGoalLists ==
  {<<Goal("add", <<X, Y, s(z)>>)>>, <<Goal("nat", <<X>>)>>, <<Goal("p", <<X>>)>>,
   <<Goal("add", <<s(z), z, V>>)>>}
Menu == IF insts = {1} THEN GoalLists ELSE TwoGoalLists
IterCap == IF insts = {1} THEN MaxIters ELSE MaxItersTwo

\* space.query(g), line 241-254
Query(i) ==
  /\ i \in insts
  /\ pc[i] = "none"
  /\ \E gs \in Menu :
       /\ goals' = [goals EXCEPT ![i] = gs]
       /\ freeVariables' = [freeVariables EXCEPT ![i] = queryVariables(gs)]
       /\ queue' = [queue EXCEPT ![queueOf(i)] = <<Item(gs, <<>>)>>]
  /\ pc' = [pc EXCEPT ![i] = "idle"]
  /\ UNCHANGED <<facts, rules, insts, results, iters, nextVar, clones, call, ret>>

\* the caller calls next()
Pull(i) ==
  /\ pc[i] = "idle"
  /\ Len(results[i]) < MaxPulls
  /\ pc' = [pc EXCEPT ![i] = "running"]
  /\ UNCHANGED <<facts, rules, insts, goals, freeVariables, queue, results, iters, nextVar,
                 clones, call, ret>>

\* the loop test and one pass through the loop body of next(), line 256-340
Step(i) ==
  /\ pc[i] = "running"
  /\ iters[i] < IterCap
  /\ LET r == iterate(queue[queueOf(i)], nextVar, freeVariables[i], facts, rules)
     IN  /\ queue' = [queue EXCEPT ![queueOf(i)] = r.queue]
         /\ nextVar' = r.nv
         /\ clones' = clones \o r.clones
         /\ iters' = [iters EXCEPT ![i] = @ + 1]
         /\ IF r.ret.kind # "continue"
            THEN /\ results' = [results EXCEPT ![i] = Append(@, r.ret)]
                 /\ pc' = [pc EXCEPT ![i] = "idle"]
            ELSE UNCHANGED <<results, pc>>
  /\ UNCHANGED <<facts, rules, insts, goals, freeVariables, call, ret>>

Next == \E i \in Inst : Query(i) \/ Pull(i) \/ Step(i)

Spec == Init /\ [][Next]_vars

SpecTwo == InitTwo /\ [][Next]_vars

\* ------------------------------------------------------------------------
\* Constraint.unify called on its own
\* ------------------------------------------------------------------------
UVars == {Variable(n, "U") : n \in 1..MaxVars}
UAtoms == UVars \cup {a, b}
UTerms ==
  UAtoms \cup {f(t1, t2) : t1 \in UAtoms, t2 \in UAtoms}
         \cup {f1(t) : t \in UAtoms} \cup {g(t) : t \in UAtoms}
USmall == UAtoms \cup {g(t) : t \in UAtoms} \cup {f(t, t) : t \in UVars}

UnifyInputs ==
       {<<>>}
  \cup {<<Constraint(l, r)>> : l \in UTerms, r \in UTerms}
  \cup {<<Constraint(l1, r1), Constraint(l2, r2)>> :
          l1 \in UVars, r1 \in USmall, l2 \in USmall, r2 \in USmall}
  \cup {<<Constraint(f(l, l), f(r1, r2))>> : l \in UVars, r1 \in USmall, r2 \in USmall}

InitUnify ==
  /\ facts = <<>> /\ rules = <<>>
  /\ insts = {}
  /\ goals = [i \in Inst |-> <<>>]
  /\ freeVariables = [i \in Inst |-> <<>>]
  /\ queue = [i \in Inst |-> <<>>]
  /\ pc = [i \in Inst |-> "none"]
  /\ results = [i \in Inst |-> <<>>]
  /\ iters = [i \in Inst |-> 0]
  /\ nextVar = FirstFresh
  /\ clones = <<>>
  /\ \E cs \in UnifyInputs : call = [op |-> "unify", constraints |-> cs]
  /\ ret = Null

\* Constraint.unify(constraints) called and returned
UnifyCall ==
  /\ call.op = "unify"
  /\ ret' = unify(call.constraints)
  /\ call' = [call EXCEPT !.op = "returned"]
  /\ UNCHANGED <<facts, rules, insts, goals, freeVariables, queue, pc, results, iters, nextVar,
                 clones>>

NextUnify == UnifyCall

SpecUnify == InitUnify /\ [][NextUnify]_vars

\* ------------------------------------------------------------------------
\* Substitution.applyAll called on its own
\* ------------------------------------------------------------------------
c == Constant("c")
d == Constant("d")

AAtoms == {X, Y, c, d}
ATerms == AAtoms \cup {f(t1, t2) : t1 \in AAtoms, t2 \in AAtoms} \cup {f(X, f(X, Y))}
ABindings == {Substitution(v, t) : v \in {X, Y}, t \in AAtoms \cup {f1(X), f1(Y)}}

\* the lists of at most n bindings
RECURSIVE BindingLists(_)
BindingLists(n) ==
  IF n = 0 THEN {<<>>}
  ELSE BindingLists(n - 1)
         \cup {Append(l, bd) : l \in {l0 \in BindingLists(n - 1) : Len(l0) = n - 1},
                               bd \in ABindings}

ApplyInputs ==
  {[op |-> "applyAll", term |-> t, substitutions |-> l] : t \in ATerms, l \in BindingLists(MaxSubs)}

InitApply ==
  /\ facts = <<>> /\ rules = <<>>
  /\ insts = {}
  /\ goals = [i \in Inst |-> <<>>]
  /\ freeVariables = [i \in Inst |-> <<>>]
  /\ queue = [i \in Inst |-> <<>>]
  /\ pc = [i \in Inst |-> "none"]
  /\ results = [i \in Inst |-> <<>>]
  /\ iters = [i \in Inst |-> 0]
  /\ nextVar = FirstFresh
  /\ clones = <<>>
  /\ call \in ApplyInputs
  /\ ret = Null

\* Substitution.applyAll(term, substitutions) called and returned
ApplyAllCall ==
  /\ call.op = "applyAll"
  /\ ret' = applyAll(call.term, call.substitutions)
  /\ call' = [call EXCEPT !.op = "returned"]
  /\ UNCHANGED <<facts, rules, insts, goals, freeVariables, queue, pc, results, iters, nextVar,
                 clones>>

NextApply == ApplyAllCall

SpecApply == InitApply /\ [][NextApply]_vars

\* ------------------------------------------------------------------------
\* Notions the properties are stated with
\* ------------------------------------------------------------------------
RECURSIVE VarsOf(_)
VarsOf(t) ==
  IF t.k = "V" THEN {t}
  ELSE UNION {VarsOf(t.a[i]) : i \in 1..Len(t.a)}

IsGround(t) == VarsOf(t) = {}

GoalListVars(gs) ==
  UNION {UNION {VarsOf(gs[j].terms[i]) : i \in 1..Len(gs[j].terms)} : j \in 1..Len(gs)}

IsNumeral(t) == t \in {Num(n) : n \in 0..(2 * MaxNum + 2)}

RECURSIVE NumVal(_)
NumVal(t) == IF t.k = "A" THEN 1 + NumVal(t.a[1]) ELSE 0

Created(i) == pc[i] # "none"
HasStore(st) == facts = st.facts /\ rules = st.rules
Binding(v, t) == [w \in {v} |-> t]

\* the pulls answered so far by instance i are the first ones of `expected`
ResultsFollow(i, expected) ==
  /\ Len(results[i]) <= Len(expected)
  /\ \A k \in 1..Len(results[i]) : results[i][k] = expected[k]

\* ---- C1 ----------------------------------------------------------------
\* an add query with one Variable and two numerals that has a solution,
\* and the numeral the Variable must get
OneUnknownAdd(gs) ==
  /\ Len(gs) = 1
  /\ gs[1].predicate = "add"
  /\ Len(gs[1].terms) = 3
  /\ \E u \in 1..3 :
       /\ gs[1].terms[u].k = "V"
       /\ \A o \in (1..3) \ {u} : IsNumeral(gs[1].terms[o])
       /\ u = 1 => NumVal(gs[1].terms[3]) >= NumVal(gs[1].terms[2])
       /\ u = 2 => NumVal(gs[1].terms[3]) >= NumVal(gs[1].terms[1])

UnknownOf(gs) == CHOOSE u \in 1..3 : gs[1].terms[u].k = "V"

AddSolution(gs) ==
  LET t == gs[1].terms
      u == UnknownOf(gs)
  IN  IF u = 3 THEN Num(NumVal(t[1]) + NumVal(t[2]))
      ELSE IF u = 1 THEN Num(NumVal(t[3]) - NumVal(t[2]))
      ELSE Num(NumVal(t[3]) - NumVal(t[1]))

\* C1: with the add store, an add query with exactly one Variable argument
\* and two numerals that admit a solution gets exactly one answer, the
\* Variable bound to the numeral solving first + second = third, and then
\* exhaustion; both pulls return within 2 * MaxNum + 5 passes of the loop.
C1_AddOneUnknown ==
  \A i \in Inst :
    (Created(i) /\ HasStore(AddStore) /\ OneUnknownAdd(goals[i])) =>
      /\ \A k \in 1..Len(results[i]) :
           /\ k = 1 => results[i][k] =
                Answer(Binding(goals[i][1].terms[UnknownOf(goals[i])], AddSolution(goals[i])))
           /\ k >= 2 => results[i][k] = Done
      /\ Len(results[i]) < 2 => iters[i] < 2 * MaxNum + 5

C1_Witness ==
  /\ HasStore(AddStore)
  /\ goals[1] = <<Goal("add", <<s(z), s(s(z)), V>>)>>
  /\ Len(results[1]) = 2
  /\ results[1][1] = Answer(Binding(V, s(s(s(z)))))
  /\ results[1][2].done

\* ---- C2 ----------------------------------------------------------------
AddSplitsOfTwo ==
  << Answer((X :> z) @@ (Y :> s(s(z)))),
     Answer((X :> s(z)) @@ (Y :> s(z))),
     Answer((X :> s(s(z))) @@ (Y :> z)),
     Done >>

\* C2: with the add store, add(X, Y, s(s(z))) gets exactly the three
\* answers {X->z, Y->s(s(z))}, {X->s(z), Y->s(z)}, {X->s(s(z)), Y->z} in
\* this order, the fourth pull reports exhaustion, and the four pulls
\* need no more than 10 passes of the loop.
C2_AddSplitsInOrder ==
  \A i \in Inst :
    (Created(i) /\ HasStore(AddStore) /\ goals[i] = <<Goal("add", <<X, Y, s(s(z))>>)>>) =>
      /\ \A k \in 1..Len(results[i]) : k <= 4 => results[i][k] = AddSplitsOfTwo[k]
      /\ Len(results[i]) < 4 => iters[i] < 10

C2_Witness ==
  /\ HasStore(AddStore)
  /\ goals[1] = <<Goal("add", <<X, Y, s(s(z))>>)>>
  /\ results[1] = AddSplitsOfTwo

\* ---- C3 ----------------------------------------------------------------
\* C3: every answer a pull returns maps exactly the Variables of the
\* original goal list, each to a ground term.
C3_AnswersGround ==
  \A i \in Inst : \A k \in 1..Len(results[i]) :
    (results[i][k].kind = "return" /\ ~results[i][k].done) =>
      /\ DOMAIN results[i][k].value = GoalListVars(goals[i])
      /\ \A v \in DOMAIN results[i][k].value : IsGround(results[i][k].value[v])

C3_Witness ==
  /\ HasStore(AddStore)
  /\ goals[1] = <<Goal("add", <<X, Y, s(z)>>)>>
  /\ Len(results[1]) >= 1
  /\ results[1][1] = Answer((X :> z) @@ (Y :> s(z)))

\* ---- C4 ----------------------------------------------------------------
\* no fact and no rule head has the goal's predicate with its argument count
NoClauseFor(goal) ==
  /\ \A j \in 1..Len(facts) :
       ~(facts[j].predicate = goal.predicate /\ Len(facts[j].terms) = Len(goal.terms))
  /\ \A j \in 1..Len(rules) :
       ~(rules[j].left.predicate = goal.predicate
         /\ Len(rules[j].left.terms) = Len(goal.terms))

\* no fact and no rule head unifies with the goal
NoClauseUnifies(goal) ==
  /\ \A j \in 1..Len(facts) :
       matches(goal, facts[j]) => ~unifyHead(goal, <<>>, cloneFact(facts[j], FirstFresh)).ok
  /\ \A j \in 1..Len(rules) :
       matches(goal, rules[j].left) =>
         ~unifyHead(goal, <<>>, cloneRule(rules[j], FirstFresh).left).ok

\* C4: when no clause of the store has the predicate and argument count of
\* the first goal, or none unifies with it, the first pull (and every
\* later one) reports exhaustion, after two passes of the loop, and no
\* pull raises an error.
C4_NoClauseExhausts ==
  \A i \in Inst :
    (Created(i) /\ goals[i] # <<>>
       /\ (NoClauseFor(goals[i][1]) \/ NoClauseUnifies(goals[i][1]))) =>
      /\ \A k \in 1..Len(results[i]) : results[i][k] = Done
      /\ Len(results[i]) = 0 => iters[i] < 2

\* ---- C5 ----------------------------------------------------------------
\* C5: once a pull has returned exhaustion, every later pull on the same
\* query returns exhaustion too.
C5_ExhaustionStable ==
  \A i \in Inst : \A j \in 1..Len(results[i]) : \A k \in 1..Len(results[i]) :
    (j < k /\ results[i][j].done) => results[i][k].done

C5_Witness ==
  /\ HasStore(MixStore)
  /\ goals[1] = <<Goal("p", <<X, b>>)>>
  /\ Len(results[1]) = 3
  /\ ~results[1][1].done
  /\ results[1][2].done
  /\ results[1][3].done

\* ---- C9 ----------------------------------------------------------------
\* C9: with the nat store, the k-th pull on nat(X) returns X -> s^(k-1)(z),
\* never exhaustion, and each pull takes two passes of the loop.
C9_NatEnumerates ==
  \A i \in Inst :
    (Created(i) /\ HasStore(NatStore) /\ goals[i] = <<Goal("nat", <<X>>)>>) =>
      /\ \A k \in 1..Len(results[i]) : results[i][k] = Answer(Binding(X, Num(k - 1)))
      /\ iters[i] <= 2 * Len(results[i]) + 1
      /\ pc[i] = "idle" => iters[i] = 2 * Len(results[i])
      /\ queue[queueOf(i)] # <<>>

C9_Witness ==
  /\ HasStore(NatStore)
  /\ goals[1] = <<Goal("nat", <<X>>)>>
  /\ Len(results[1]) = 3
  /\ results[1][3] = Answer(Binding(X, s(s(z))))

\* ---- C10 ---------------------------------------------------------------
RECURSIVE SumLen(_)
SumLen(ss) == IF ss = <<>> THEN 0 ELSE Len(Head(ss)) + SumLen(Tail(ss))

\* the Variable identity the clone of the j-th fact / j-th rule starts at,
\* when the pass starts at nv
FactBase(j, nv) == nv + SumLen([k \in 1..(j - 1) |-> factVariables(facts[k])])
RuleBase(j, nv) ==
  nv + SumLen([k \in 1..Len(facts) |-> factVariables(facts[k])])
     + SumLen([k \in 1..(j - 1) |-> ruleVariables(rules[k])])

\* the fact / rule applies to the first goal of the item
FactApplies(j, item, nv) ==
  /\ facts[j].predicate = item.goals[1].predicate
  /\ Len(facts[j].terms) = Len(item.goals[1].terms)
  /\ unifyHead(item.goals[1], item.substitutions, cloneFact(facts[j], FactBase(j, nv))).ok

RuleApplies(j, item, nv) ==
  /\ rules[j].left.predicate = item.goals[1].predicate
  /\ Len(rules[j].left.terms) = Len(item.goals[1].terms)
  /\ unifyHead(item.goals[1], item.substitutions, cloneRule(rules[j], RuleBase(j, nv)).left).ok

\* the members of a set of indices in increasing order
RECURSIVE Ascending(_)
Ascending(S) ==
  IF S = {} THEN <<>>
  ELSE LET m == CHOOSE x \in S : \A y \in S : x <= y
       IN  <<m>> \o Ascending(S \ {m})

\* the queue after a pass that took `item` off a queue with `rest` behind it
AppendedInStoreOrder(after, item, rest, nv) ==
  LET fi == Ascending({j \in 1..Len(facts) : FactApplies(j, item, nv)})
      ri == Ascending({j \in 1..Len(rules) : RuleApplies(j, item, nv)})
  IN  /\ Len(after) = Len(rest) + Len(fi) + Len(ri)
      /\ SubSeq(after, 1, Len(rest)) = rest
      /\ \A n \in 1..Len(fi) :
           after[Len(rest) + n] =
             factAttempt(facts[fi[n]], item, FactBase(fi[n], nv)).items[1]
      /\ \A n \in 1..Len(ri) :
           after[Len(rest) + Len(fi) + n] =
             ruleAttempt(rules[ri[n]], item, RuleBase(ri[n], nv)).items[1]

RECURSIVE AloneRun(_, _, _, _, _)
AloneRun(q, nv, fv, log, n) ==
  IF n = 0 THEN log
  ELSE LET r == iterate(q, nv, fv, facts, rules)
       IN  AloneRun(r.queue, r.nv, fv,
                    IF r.ret.kind # "continue" THEN Append(log, r.ret) ELSE log, n - 1)

AloneResults(gs, n) == AloneRun(<<Item(gs, <<>>)>>, FirstFresh, queryVariables(gs), <<>>, n)

ActedOn(i) == pc'[i] # pc[i] \/ iters'[i] # iters[i]

\* C6: however the pulls on two queries of one Space interleave, each
\* query has returned what it returns alone after as many passes of the
\* loop, and a step of one query changes neither the queue of the other
\* nor the facts and rules.
C6_QueriesIndependent ==
  /\ [](\A i \in Inst : Created(i) => results[i] = AloneResults(goals[i], iters[i]))
  /\ [][/\ facts' = facts
        /\ rules' = rules
        /\ \A i \in Inst : \A j \in Inst \ {i} :
             (Created(i) /\ ActedOn(j)) => queue'[queueOf(i)] = queue[queueOf(i)]]_vars

\* the second query has two answers while the first was left after one
C6_Witness ==
  /\ HasStore(AddStore)
  /\ goals[1] = <<Goal("add", <<X, Y, s(z)>>)>>
  /\ goals[2] = <<Goal("add", <<X, Y, s(z)>>)>>
  /\ Len(results[1]) = 1
  /\ iters[1] = 3
  /\ Len(results[2]) = 2
  /\ results[2][2] = Answer((X :> s(z)) @@ (Y :> z))

\* ---- C7 ----------------------------------------------------------------
Returned == call.op = "returned"

\* the binding list makes the two sides of every constraint identical
Unifies(substitutions, constraints) ==
  \A n \in 1..Len(constraints) :
    applyAll(constraints[n].left, substitutions)
      = applyAll(constraints[n].right, substitutions)

\* no binding of the list binds a Variable to a term that contains it
Acyclic(substitutions) ==
  \A n \in 1..Len(substitutions) :
    substitutions[n].variable \notin VarsOf(substitutions[n].term)

\* C7 as stated: whenever unify returns a binding list, applying it makes
\* the two sides of every input constraint identical.
C7_Original == (Returned /\ ret.ok) => Unifies(ret.substitutions, call.constraints)

\* C7 amended: whenever unify returns a binding list in which no Variable
\* is bound to a term containing that Variable, applying the list makes the
\* two sides of every input constraint identical; f(X,Y) = f(a,b) gives a
\* list that turns f(X,Y) into f(a,b), and f(a) = f(a) gives the empty list.
C7_UnifierWhenAcyclic ==
  Returned =>
    /\ (ret.ok /\ Acyclic(ret.substitutions)) => Unifies(ret.substitutions, call.constraints)
    /\ \A x \in UVars : \A y \in UVars \ {x} :
         call.constraints = <<Constraint(f(x, y), f(a, b))>> =>
           ret.ok /\ applyAll(f(x, y), ret.substitutions) = f(a, b)
    /\ call.constraints = <<Constraint(f1(a), f1(a))>> => ret = Some(<<>>)

C7_Witness ==
  /\ Returned
  /\ call.constraints = <<Constraint(f(Variable(1, "U"), Variable(2, "U")), f(a, b))>>
  /\ ret.ok
  /\ Len(ret.substitutions) = 2
  /\ applyAll(f(Variable(1, "U"), Variable(2, "U")), ret.substitutions) = f(a, b)

\* ---- C8 ----------------------------------------------------------------
\* simultaneous replacement of one Variable in a term
RECURSIVE Replace(_, _, _)
Replace(t, v, by) ==
  IF t = v THEN by
  ELSE IF t.k = "A" THEN [t EXCEPT !.a = [n \in 1..Len(t.a) |-> Replace(t.a[n], v, by)]]
  ELSE t

\* a pair that cannot be made identical: two distinct constants, a constant
\* and an Application, or Applications of different Functor or length
ClashPair(l, r) ==
  \/ l.k = "C" /\ r.k = "C" /\ l.name # r.name
  \/ l.k = "C" /\ r.k = "A"
  \/ l.k = "A" /\ r.k = "C"
  \/ l.k = "A" /\ r.k = "A" /\ (l.name # r.name \/ Len(l.a) # Len(r.a))

\* solving the constraints in order, each binding applied to the remaining
\* constraints, comes to a clashing pair within n steps
RECURSIVE ReachesClashWithin(_, _)
ReachesClashWithin(cs, n) ==
  /\ cs # <<>>
  /\ n > 0
  /\ LET l == cs[1].left
         r == cs[1].right
         rest == Tail(cs)
     IN  IF l = r THEN ReachesClashWithin(rest, n - 1)
         ELSE IF l.k = "V"
              THEN ReachesClashWithin([m \in 1..Len(rest) |->
                     Constraint(Replace(rest[m].left, l, r), Replace(rest[m].right, l, r))],
                     n - 1)
         ELSE IF r.k = "V"
              THEN ReachesClashWithin([m \in 1..Len(rest) |->
                     Constraint(Replace(rest[m].left, r, l), Replace(rest[m].right, r, l))],
                     n - 1)
         ELSE IF ClashPair(l, r) THEN TRUE
         ELSE ReachesClashWithin([m \in 1..Len(l.a) |-> Constraint(l.a[m], r.a[m])] \o rest,
                                 n - 1)

ReachesClash(cs) == ReachesClashWithin(cs, StackLimit)

\* C8: unify fails whenever solving the constraints in order reaches a
\* clashing pair; f(X,X) = f(a,b) fails, and f(t) = g(t) fails for any t.
C8_ClashFails ==
  Returned =>
    /\ ReachesClash(call.constraints) => ret = Null
    /\ \A x \in UVars : call.constraints = <<Constraint(f(x, x), f(a, b))>> => ret = Null
    /\ \A t \in UAtoms : call.constraints = <<Constraint(f1(t), g(t))>> => ret = Null

C8_Witness ==
  /\ Returned
  /\ call.constraints = <<Constraint(f(Variable(1, "U"), Variable(1, "U")), f(a, b))>>
  /\ ReachesClash(call.constraints)
  /\ ret = Null

\* ---- C11 ---------------------------------------------------------------
\* the bindings unify returned for the first goal of the item against a head
HeadBindings(item, head) == unifyHead(item.goals[1], item.substitutions, head).substitutions

\* succ is what the j-th fact makes of the item: the deferred goals, and the
\* item's bindings followed by the bindings unify returned
BuiltFromFact(succ, j, item, nv) ==
  /\ FactApplies(j, item, nv)
  /\ succ.goals = Tail(item.goals)
  /\ succ.substitutions =
       item.substitutions \o HeadBindings(item, cloneFact(facts[j], FactBase(j, nv)))

\* succ is what the j-th rule makes of the item: the deferred goals first,
\* the body atoms of the renamed rule behind them
BuiltFromRule(succ, j, item, nv) ==
  LET rule == cloneRule(rules[j], RuleBase(j, nv))
      n == Len(item.goals) - 1
      m == Len(rules[j].right)
  IN  /\ RuleApplies(j, item, nv)
      /\ Len(succ.goals) = n + m
      /\ \A k \in 1..n : succ.goals[k] = item.goals[k + 1]
      /\ \A k \in 1..m : succ.goals[n + k] = rule.right[k]
      /\ succ.substitutions = item.substitutions \o HeadBindings(item, rule.left)

\* C11: every item a pass adds to the queue when it resolves an item with
\* goals [g, d1, ..., dn] and bindings B is built from a fact and has goals
\* [d1, ..., dn], or is built from a rule and has goals [d1, ..., dn]
\* followed by the body atoms of the renamed rule; its bindings are B
\* followed by the bindings unify returned.
C11_BodyAfterDeferred ==
  [][\A i \in Inst :
       (pc[i] = "running" /\ iters'[i] = iters[i] + 1
          /\ queue[queueOf(i)] # <<>> /\ Head(queue[queueOf(i)]).goals # <<>>) =>
         LET item == Head(queue[queueOf(i)])
             kept == Len(queue[queueOf(i)]) - 1
             after == queue'[queueOf(i)]
         IN  /\ Len(after) >= kept
             /\ \A n \in (kept + 1)..Len(after) :
                  \/ \E j \in 1..Len(facts) : BuiltFromFact(after[n], j, item, nextVar)
                  \/ \E j \in 1..Len(rules) : BuiltFromRule(after[n], j, item, nextVar)]_vars

\* the third pass on nat(X), nat(Y) resolved the item with goals
\* [nat(Y), nat(X')] and bindings [X -> s(X')] by the rule: nat(X') stays
\* in front, the body nat(Y') comes behind it
C11_Witness ==
  /\ HasStore(NatStore)
  /\ goals[1] = <<Goal("nat", <<X>>), Goal("nat", <<Y>>)>>
  /\ iters[1] = 3
  /\ Len(queue[1]) = 4
  /\ queue[1][3] =
       Item(<<Goal("nat", <<Variable(FirstFresh, "X")>>)>>,
            <<Substitution(X, s(Variable(FirstFresh, "X"))), Substitution(Y, z)>>)
  /\ queue[1][4] =
       Item(<<Goal("nat", <<Variable(FirstFresh, "X")>>),
              Goal("nat", <<Variable(FirstFresh + 2, "X")>>)>>,
            <<Substitution(X, s(Variable(FirstFresh, "X"))),
              Substitution(Y, s(Variable(FirstFresh + 2, "X")))>>)

\* ---- C12 ---------------------------------------------------------------
\* the atoms of a clause, head first
ClauseAtoms(kind, clause) == IF kind = "fact" THEN <<clause>> ELSE <<clause.left>> \o clause.right

\* Variable identities in a term, an atom, a clause, a queue item
TermIds(t) == {v.id : v \in VarsOf(t)}
AtomIds(atom) == UNION {TermIds(atom.terms[n]) : n \in 1..Len(atom.terms)}
AtomsIds(atoms) == UNION {AtomIds(atoms[n]) : n \in 1..Len(atoms)}
ClauseIds(kind, clause) == AtomsIds(ClauseAtoms(kind, clause))
ItemIds(item) ==
  AtomsIds(item.goals)
    \cup UNION {{item.substitutions[n].variable.id} \cup TermIds(item.substitutions[n].term) :
                  n \in 1..Len(item.substitutions)}

\* the same term up to the identities of its Variables
RECURSIVE SameShape(_, _)
SameShape(t, u) ==
  /\ t.k = u.k
  /\ t.name = u.name
  /\ Len(t.a) = Len(u.a)
  /\ \A n \in 1..Len(t.a) : SameShape(t.a[n], u.a[n])

\* the pairs (identity of an original Variable, identity of the Variable in
\* its place) of two terms of the same shape
RECURSIVE Renamed(_, _)
Renamed(t, u) ==
  IF t.k = "V" THEN {<<t.id, u.id>>}
  ELSE UNION {Renamed(t.a[n], u.a[n]) : n \in 1..Len(t.a)}

AtomsRenamed(atoms, copies) ==
  UNION {UNION {Renamed(atoms[n].terms[m], copies[n].terms[m]) : m \in 1..Len(atoms[n].terms)} :
           n \in 1..Len(atoms)}

\* made.as is made.of with its Variables renamed one to one
WellCloned(made) ==
  LET atoms == ClauseAtoms(made.kind, made.of)
      copies == ClauseAtoms(made.kind, made.as)
  IN  /\ Len(copies) = Len(atoms)
      /\ \A n \in 1..Len(atoms) :
           /\ copies[n].predicate = atoms[n].predicate
           /\ Len(copies[n].terms) = Len(atoms[n].terms)
           /\ \A m \in 1..Len(atoms[n].terms) : SameShape(atoms[n].terms[m], copies[n].terms[m])
      /\ \A p \in AtomsRenamed(atoms, copies) : \A q \in AtomsRenamed(atoms, copies) :
           (p[1] = q[1]) <=> (p[2] = q[2])

\* the Variable identities in the store, the queries, the queues and the
\* clauses clone() has returned so far
IdsInUse ==
  {v.id : v \in StoreVariables([facts |-> facts, rules |-> rules])}
    \cup UNION {{v.id : v \in GoalListVars(goals[i])} : i \in Inst}
    \cup UNION {UNION {ItemIds(queue[i][n]) : n \in 1..Len(queue[i])} : i \in Inst}
    \cup UNION {ClauseIds(clones[n].kind, clones[n].as) : n \in 1..Len(clones)}

\* the j-th clause of the store, facts first
StoredClause(j) ==
  IF j <= Len(facts) THEN [kind |-> "fact", of |-> facts[j]]
  ELSE [kind |-> "rule", of |-> rules[j - Len(facts)]]

\* C12: every clause clone() returns has the predicates, functors,
\* constants and shape of the stored clause, with Variables renamed one to
\* one (two occurrences get the same Variable exactly when they were the
\* same Variable, across head and body) to Variables that occur nowhere
\* else: not in the store, the queries, the queues, nor in a clause cloned
\* before; the store is left as it was; and every pass that resolves a goal
\* clones the clauses anew, in store order, so that two items it adds share
\* no Variable beyond those of the item they come from.
C12_ClonesApart ==
  [][/\ facts' = facts
     /\ rules' = rules
     /\ Len(clones') >= Len(clones)
     /\ \A k \in (Len(clones) + 1)..Len(clones') :
          /\ clones'[k].kind = StoredClause(k - Len(clones)).kind
          /\ clones'[k].of = StoredClause(k - Len(clones)).of
          /\ WellCloned(clones'[k])
          /\ ClauseIds(clones'[k].kind, clones'[k].as) \cap IdsInUse = {}
          /\ \A l \in (Len(clones) + 1)..(k - 1) :
               ClauseIds(clones'[k].kind, clones'[k].as)
                 \cap ClauseIds(clones'[l].kind, clones'[l].as) = {}
     /\ \A i \in Inst :
          (pc[i] = "running" /\ iters'[i] = iters[i] + 1
             /\ queue[queueOf(i)] # <<>> /\ Head(queue[queueOf(i)]).goals # <<>>) =>
            LET item == Head(queue[queueOf(i)])
                kept == Len(queue[queueOf(i)]) - 1
                after == queue'[queueOf(i)]
            IN  /\ results'[i] = results[i] =>
                     Len(clones') = Len(clones) + Len(facts) + Len(rules)
                /\ \A n \in (kept + 1)..Len(after) : \A m \in (kept + 1)..Len(after) :
                     n # m => (ItemIds(after[n]) \cap ItemIds(after[m])) \subseteq ItemIds(item)]_vars

\* the first and the third pass on add(X, Y, s(s(z))) have each cloned the
\* fact and the rule (the second pass returned an answer), and the two
\* clones of the rule share no Variable with each other or with the store
C12_Witness ==
  /\ HasStore(AddStore)
  /\ goals[1] = <<Goal("add", <<X, Y, s(s(z))>>)>>
  /\ iters[1] = 3
  /\ Len(clones) = 4
  /\ clones[2] =
       Cloned("rule", AddRule,
              Rule(Atom("add", <<s(Variable(FirstFresh + 1, "X")), Variable(FirstFresh + 2, "Y"),
                                 s(Variable(FirstFresh + 3, "Z"))>>),
                   <<Atom("add", <<Variable(FirstFresh + 1, "X"), Variable(FirstFresh + 2, "Y"),
                                   Variable(FirstFresh + 3, "Z")>>)>>))
  /\ clones[4].of = AddRule
  /\ ClauseIds("rule", clones[4].as) = (FirstFresh + 5)..(FirstFresh + 7)

\* ---- C13 ---------------------------------------------------------------
\* the item has no goal left, and its bindings leave a Variable in the term
\* of some query Variable
UnboundCandidate(item, freeVars) ==
  /\ item.goals = <<>>
  /\ \E n \in 1..Len(freeVars) : ~IsGround(applyAll(freeVars[n], item.substitutions))

MultUnbound == <<Goal("mult", <<z, Y, V>>)>>

\* C13: a pass that takes off the queue an item with no goal left whose
\* bindings leave a Variable in the term of some query Variable returns
\* nothing: the item is gone, the other items stay as they were, and the
\* pull goes on with the next item.  With the fact mult(z, X, z) the query
\* mult(z, Y, Z) has one derivation, which binds Y to a Variable, and no
\* pull returns an answer.
C13_UnboundDropped ==
  /\ [][\A i \in Inst :
          (pc[i] = "running" /\ iters'[i] = iters[i] + 1
             /\ queue[queueOf(i)] # <<>>
             /\ UnboundCandidate(Head(queue[queueOf(i)]), freeVariables[i])) =>
            /\ results'[i] = results[i]
            /\ pc'[i] = "running"
            /\ queue'[queueOf(i)] = Tail(queue[queueOf(i)])
            /\ nextVar' = nextVar]_vars
  /\ [](\A i \in Inst :
          (Created(i) /\ HasStore(MultStore) /\ goals[i] = MultUnbound) =>
            /\ \A k \in 1..Len(results[i]) : results[i][k] = Done
            /\ iters[i] = 1 =>
                 queue[queueOf(i)] =
                   <<Item(<<>>, <<Substitution(Y, Variable(FirstFresh, "X")),
                                  Substitution(V, z)>>)>>
            /\ Len(results[i]) = 0 => iters[i] < 3)

\* the derivation of mult(z, Y, Z) by the fact was dropped in the second
\* pass and the third found the queue empty
C13_Witness ==
  /\ HasStore(MultStore)
  /\ goals[1] = MultUnbound
  /\ iters[1] = 3
  /\ queue[1] = <<>>
  /\ results[1] = <<Done>>

\* ---- C14 ---------------------------------------------------------------
\* the first n bindings of the list applied one after the other, each to
\* what the ones before it made of the term
RECURSIVE AppliedInTurn(_, _, _)
AppliedInTurn(term, substitutions, n) ==
  IF n = 0 THEN term
  ELSE apply(substitutions[n], AppliedInTurn(term, substitutions, n - 1))

\* every Variable of the term replaced at once by the term the list binds
\* it to (the first binding of it), if any
RECURSIVE AppliedAtOnce(_, _)
AppliedAtOnce(term, substitutions) ==
  IF term.k = "V"
  THEN IF \E n \in 1..Len(substitutions) : substitutions[n].variable = term
       THEN substitutions[CHOOSE n \in 1..Len(substitutions) :
                            /\ substitutions[n].variable = term
                            /\ \A m \in 1..(n - 1) : substitutions[m].variable # term].term
       ELSE term
  ELSE IF term.k = "C" THEN term
  ELSE Application(term.name,
                   [n \in 1..Len(term.a) |-> AppliedAtOnce(term.a[n], substitutions)])

\* C14: applyAll(term, list) is what applying the bindings one at a time,
\* in list order, each to the result of the ones before, makes of the
\* term.  It is not the simultaneous substitution, applyAll(X, [X->Y, Y->c])
\* being c, and it is not carried on to a fixpoint, applyAll(X, [Y->c, X->Y])
\* being Y; [X->c, Y->d] makes f(c, f(c, d)) of f(X, f(X, Y)).
C14_ApplyAllFoldsLeft ==
  Returned =>
    /\ ret = AppliedInTurn(call.term, call.substitutions, Len(call.substitutions))
    /\ (call.term = X /\ call.substitutions = <<Substitution(X, Y), Substitution(Y, c)>>) =>
         /\ ret = c
         /\ ret # AppliedAtOnce(call.term, call.substitutions)
    /\ (call.term = X /\ call.substitutions = <<Substitution(Y, c), Substitution(X, Y)>>) =>
         /\ ret = Y
         /\ ret # AppliedInTurn(ret, call.substitutions, Len(call.substitutions))
    /\ (call.term = f(X, f(X, Y))
          /\ call.substitutions = <<Substitution(X, c), Substitution(Y, d)>>) =>
         ret = f(c, f(c, d))

C14_Witness ==
  /\ Returned
  /\ call.term = X
  /\ call.substitutions = <<Substitution(X, Y), Substitution(Y, c)>>
  /\ ret = c

\* ---- C15 ---------------------------------------------------------------
\* a ground term is an instance of the pattern, apart from the agreement of
\* the occurrences of a Variable
RECURSIVE Fits(_, _)
Fits(pattern, ground) ==
  IF pattern.k = "V" THEN TRUE
  ELSE /\ ground.k = pattern.k
       /\ ground.name = pattern.name
       /\ Len(ground.a) = Len(pattern.a)
       /\ \A n \in 1..Len(pattern.a) : Fits(pattern.a[n], ground.a[n])

\* the pairs (Variable of the pattern, ground term in its place)
RECURSIVE Assigned(_, _)
Assigned(pattern, ground) ==
  IF pattern.k = "V" THEN {<<pattern, ground>>}
  ELSE UNION {Assigned(pattern.a[n], ground.a[n]) : n \in 1..Len(pattern.a)}

AssignedAll(patterns, grounds) ==
  UNION {Assigned(patterns[n], grounds[n]) : n \in 1..Len(patterns)}

\* the ground atom is an instance of the head: proper matching, every
\* occurrence of a Variable standing for the same finite term
InstanceOfHead(head, atom) ==
  /\ head.predicate = atom.predicate
  /\ Len(head.terms) = Len(atom.terms)
  /\ \A n \in 1..Len(head.terms) : Fits(head.terms[n], atom.terms[n])
  /\ \A p \in AssignedAll(head.terms, atom.terms) :
       \A q \in AssignedAll(head.terms, atom.terms) : p[1] = q[1] => p[2] = q[2]

\* a term with its Variables replaced as the pairs say
RECURSIVE Under(_, _)
Under(term, pairs) ==
  IF term.k = "V" THEN (CHOOSE p \in pairs : p[1] = term)[2]
  ELSE IF term.k = "C" THEN term
  ELSE Application(term.name, [n \in 1..Len(term.a) |-> Under(term.a[n], pairs)])

AtomUnder(atom, pairs) ==
  Atom(atom.predicate, [n \in 1..Len(atom.terms) |-> Under(atom.terms[n], pairs)])

\* the Variables of a rule that occur in its body only, and the ground
\* terms tried for them
BodyOnly(rule) ==
  Range(ruleVariables(rule)) \ Range(termsVariables(rule.left.terms))

Herbrand == {z, a, b, s(z), s(a), s(b)}

\* the ground atom has a derivation of depth at most n from the facts and
\* rules, by ground instances of the clauses
RECURSIVE Proves(_, _)
Proves(atom, n) ==
  /\ n > 0
  /\ \/ \E j \in 1..Len(facts) : InstanceOfHead(facts[j], atom)
     \/ \E j \in 1..Len(rules) :
          /\ InstanceOfHead(rules[j].left, atom)
          /\ \E h \in [BodyOnly(rules[j]) -> Herbrand] :
               LET pairs == AssignedAll(rules[j].left.terms, atom.terms)
                              \cup {<<v, h[v]>> : v \in BodyOnly(rules[j])}
               IN  \A k \in 1..Len(rules[j].right) :
                     Proves(AtomUnder(rules[j].right[k], pairs), n - 1)

\* a query term with the query Variables replaced as the answer says
RECURSIVE Answered(_, _)
Answered(term, mapping) ==
  IF term.k = "V" THEN IF term \in DOMAIN mapping THEN mapping[term] ELSE term
  ELSE IF term.k = "C" THEN term
  ELSE Application(term.name, [n \in 1..Len(term.a) |-> Answered(term.a[n], mapping)])

\* the goals under the answer are ground atoms, each with a derivation
Sound(gs, mapping) ==
  \A n \in 1..Len(gs) :
    LET atom == Atom(gs[n].predicate,
                     [m \in 1..Len(gs[n].terms) |-> Answered(gs[n].terms[m], mapping)])
    IN  /\ \A m \in 1..Len(atom.terms) : IsGround(atom.terms[m])
        /\ Proves(atom, MaxIters)

\* this step of instance i returns an answer
Answers(i) ==
  /\ pc[i] = "running"
  /\ Len(results'[i]) = Len(results[i]) + 1
  /\ results'[i][Len(results'[i])].kind = "return"
  /\ ~results'[i][Len(results'[i])].done

\* C15 as stated: every answer turns the goals of the query into ground
\* atoms that each have a derivation from the facts and rules, and no
\* answer comes from bindings that bind a Variable to a term containing it.
C15_Original ==
  [][\A i \in Inst :
       Answers(i) =>
         /\ Sound(goals[i], results'[i][Len(results'[i])].value)
         /\ Acyclic(Head(queue[queueOf(i)]).substitutions)]_vars

\* C15 amended: every answer whose bindings bind no Variable to a term
\* containing that Variable turns the goals of the query into ground atoms
\* that each have a derivation from the facts and rules.
C15_SoundWhenAcyclic ==
  [][\A i \in Inst :
       (Answers(i) /\ Acyclic(Head(queue[queueOf(i)]).substitutions)) =>
         Sound(goals[i], results'[i][Len(results'[i])].value)]_vars

\* t(X, Y, f(a, b)) is answered by the fact t(X, X, X)
C15_Witness ==
  /\ HasStore(MixStore)
  /\ goals[1] = <<Goal("t", <<X, Y, f(a, b)>>)>>
  /\ Len(results[1]) = 1
  /\ results[1][1] = Answer((X :> f(a, b)) @@ (Y :> f(a, b)))
  /\ Sound(goals[1], results[1][1].value)

\* ---- C16 ---------------------------------------------------------------
\* the derivations that start at the item and resolve at most n more goals:
\* the pairs (answer, number of goals resolved); `used` goals were resolved
\* to come to the item, and a unification without end counts as a failed one
RECURSIVE Leads(_, _, _, _, _)
Leads(item, nv, freeVars, n, used) ==
  IF item.goals = <<>>
  THEN IF isValid(variableTermMapping(freeVars, item.substitutions))
       THEN {<<variableTermMapping(freeVars, item.substitutions), used>>}
       ELSE {}
  ELSE IF n = 0 THEN {}
  ELSE UNION ({UNION {Leads(succ, nv + Len(factVariables(facts[j])), freeVars, n - 1, used + 1) :
                        succ \in Range(factAttempt(facts[j], item, nv).items)} :
                 j \in {j0 \in 1..Len(facts) : matches(item.goals[1], facts[j0])}}
              \cup
              {UNION {Leads(succ, nv + Len(ruleVariables(rules[j])), freeVars, n - 1, used + 1) :
                        succ \in Range(ruleAttempt(rules[j], item, nv).items)} :
                 j \in {j0 \in 1..Len(rules) : matches(item.goals[1], rules[j0].left)}})

\* the answers the query of instance i has by derivations of at most
\* MaxDepth steps
Derived(i) ==
  {p[1] : p \in Leads(Item(goals[i], <<>>), FirstFresh, freeVariables[i], MaxDepth, 0)}

HasReturned(returned, mapping) == \E k \in 1..Len(returned) : returned[k] = Answer(mapping)

\* what is waiting in a queue: the triples (answer, r, k) such that the
\* k-th item leads to the answer by resolving r goals
Waiting(q, nv, freeVars) ==
  UNION {{<<p[1], p[2], k>> : p \in Leads(q[k], nv, freeVars, MaxDepth, 0)} : k \in 1..Len(q)}

\* q is nearer to its answer than p: fewer goals to resolve, or as many
\* from a place nearer the front of the queue
Nearer(q, p) == q[1] = p[1] /\ (q[2] < p[2] \/ (q[2] = p[2] /\ q[3] < p[3]))

\* C16: an answer the query has by a finite derivation is never lost and
\* never starved.  Until a pull has returned it, some item of the queue
\* leads to it; and every pass of the loop brings a waiting answer nearer,
\* or returns it: an item that leads to it in r steps from place k of the
\* queue is followed by one that leads to it in fewer steps, or in as many
\* from a place nearer the front.  With q(X) :- q(X), q(a) :- r and r, the
\* first pull on q(V) returns V -> a, after no more than 6 passes.
C16_FifoFair ==
  /\ [](\A i \in Inst : Created(i) =>
          \A mapping \in Derived(i) :
            \/ HasReturned(results[i], mapping)
            \/ \E p \in Waiting(queue[queueOf(i)], nextVar, freeVariables[i]) : p[1] = mapping)
  /\ [][\A i \in Inst :
          (pc[i] = "running" /\ iters'[i] = iters[i] + 1) =>
            \A p \in Waiting(queue[queueOf(i)], nextVar, freeVariables[i]) :
              \/ HasReturned(results'[i], p[1])
              \/ \E q \in Waiting(queue'[queueOf(i)], nextVar', freeVariables[i]) :
                   Nearer(q, p)]_vars
  /\ [](\A i \in Inst :
          (Created(i) /\ HasStore(LoopStore) /\ goals[i] = <<Goal("q", <<V>>)>>) =>
            /\ Len(results[i]) >= 1 => results[i][1] = Answer(Binding(V, a))
            /\ Len(results[i]) = 0 => iters[i] < 6)

====
